---- MODULE Spec2Model ----
(***************************************************************************)
(* Model of the round-based task selector (database/models.py), the       *)
(* attempt lifecycle (services/task_service.py) and the console flows     *)
(* that drive them (ui/console_ui.py, main.py).                            *)
(*                                                                         *)
(* The specifications share the state:                                     *)
(*   Spec         every sequence of calls of the TaskService and the       *)
(*                repositories, with process stop and restart;             *)
(*   SpecUI       the sequences main.py and ConsoleUI can produce;         *)
(*   SpecScoped   SpecUI with the history of the scopes selected from;     *)
(*   SpecTimer    one LiveTimer (timer/timer.py) called in any order,      *)
(*                beside its background thread and the clock;              *)
(*   SpecSession  the console program timing its first attempt, with the   *)
(*                timer's thread, process stop, restart and recovery;      *)
(*   SpecFailing  SpecUI with writes of complete_attempt that raise;       *)
(*   SpecExams    SpecUI without checkpoints and measured times;           *)
(*   SpecRounds   selections from one scope, each one completed;           *)
(*   SpecHandover one attempt after another in one process, with the       *)
(*                timers' threads;                                         *)
(*   SpecListing  the calls of the TaskService in any order, with the      *)
(*                time stamps of the rows and the outcome line printed     *)
(*                by complete_attempt and cancel_attempt.                  *)
(* Other console rendering (display_task_info, menus) has no effect on    *)
(* the store and is not modelled.                                          *)
(***************************************************************************)
EXTENDS Integers, Sequences, FiniteSets, TLC

VARIABLES
    times_done,          \* tasks.times_done, per task id
    attempts,            \* solution_attempts rows, index = id (AUTOINCREMENT)
    current_attempt_id,  \* TaskService.current_attempt_id
    exam_id,             \* TaskRepository.exam_id
    pc,                  \* position of the process
    task,                \* the caller's task (task['id']), None if none
    attempt_data,        \* attempt chosen in the recovery menu (attempt_id)
    point_range,         \* (min_points, max_points) of the last selection
    task_counts,         \* result of get_task_counts_by_point_range
    incs,                \* history: mark_task_done calls made per attempt
    used,                \* history: the one scope (min, max, exam) selected
                         \* from so far, NoScope before, Mixed if several
    now,                 \* time.time(), in half seconds
    timers,              \* the LiveTimer objects of the process and their
                         \* background threads, in order of creation
    current_timer,       \* TaskService.current_timer (index into timers)
    join_until,          \* end of stop()'s timer_thread.join(timeout=1)
    duration,            \* value returned by the last stop()
    saved,               \* history: the value last written by a checkpoint,
                         \* per attempt id (NULL if none)
    printed,             \* what the last call of complete_attempt or
                         \* cancel_attempt printed ("none" if nothing);
                         \* followed in SpecListing only
    stamps               \* solution_attempts.created_at and last_updated, per
                         \* attempt id, with the second of the last write
                         \* to the row (history); followed in
                         \* SpecListing only, empty elsewhere

vars == <<times_done, attempts, current_attempt_id, exam_id, pc, task,
          attempt_data, point_range, task_counts, incs, used,
          now, timers, current_timer, join_until, duration, saved, stamps,
          printed>>

store == <<times_done, attempts, current_attempt_id, incs>>
locals == <<task, attempt_data, point_range, task_counts>>
timer_state == <<now, timers, current_timer, join_until, duration, saved>>

----------------------------------------------------------------------------
(* Bounds *)

NumTasks == 3
NumExams == 2
MaxAttempts == 2
MaxDone == 2
MaxTime == 0

(* Representation of Python None / SQL NULL *)
None == 0
NULL == -1

Tasks == 1..NumTasks
Exams == 1..NumExams
Times == 0..MaxTime

\* Catalog rows (tasks JOIN worksheets): supplied by the import, never
\* changed by the core.  Tasks 1 and 2 have 5 points and belong to exam 1,
\* the others have 7 points and belong to exam 2.
total_points(t) == IF t <= 2 THEN 5 ELSE 7
worksheet_exam(t) == IF t <= 2 THEN 1 ELSE 2
PointInputs == 5..7

NoScope == <<>>
Mixed == <<0, 0, 0>>

NoCounts == [total |-> 0, completed |-> 0, remaining |-> 0,
             current_round |-> 0, tasks_at_current_level |-> 0]

----------------------------------------------------------------------------
(* TaskRepository: selection and progress *)

\* WHERE t.total_points >= ? AND t.total_points <= ? [AND w.exam_id = ?]
ScopeRows(min_points, max_points) ==
    {t \in Tasks : /\ total_points(t) >= min_points
                   /\ total_points(t) <= max_points
                   /\ (exam_id # None => worksheet_exam(t) = exam_id)}

\* _get_min_completion_level without the exam filter
_get_min_completion_level_all_exams(min_points, max_points) ==
    LET rows == {t \in Tasks : /\ total_points(t) >= min_points
                               /\ total_points(t) <= max_points}
    IN  IF rows = {} THEN NULL
        ELSE CHOOSE m \in {times_done[t] : t \in rows} :
                 \A t \in rows : m <= times_done[t]

\* SELECT MIN(t.times_done) ...; NULL over an empty set
_get_min_completion_level(min_points, max_points) ==
    LET rows == ScopeRows(min_points, max_points)
    IN  IF rows = {} THEN NULL
        ELSE CHOOSE m \in {times_done[t] : t \in rows} :
                 \A t \in rows : m <= times_done[t]

\* _get_tasks_at_completion_level with t.times_done >= ?
_get_tasks_from_completion_level(min_points, max_points, completion_level) ==
    {t \in Tasks : /\ total_points(t) >= min_points
                   /\ total_points(t) <= max_points
                   /\ times_done[t] >= completion_level
                   /\ (exam_id # None => worksheet_exam(t) = exam_id)}

_get_tasks_at_completion_level(min_points, max_points, completion_level) ==
    {t \in Tasks : /\ total_points(t) >= min_points
                   /\ total_points(t) <= max_points
                   /\ times_done[t] = completion_level
                   /\ (exam_id # None => worksheet_exam(t) = exam_id)}

\* get_random_task taking the first row instead of a random one
get_random_task_first_row(min_points, max_points) ==
    LET min_completion_level == _get_min_completion_level(min_points, max_points)
    IN  IF min_completion_level = NULL THEN {None}
        ELSE LET tasks_at_min_level ==
                     _get_tasks_at_completion_level(min_points, max_points,
                                                    min_completion_level)
             IN  IF tasks_at_min_level = {} THEN {None}
                 ELSE {CHOOSE t \in tasks_at_min_level :
                           \A u \in tasks_at_min_level : t <= u}

\* The set of values get_random_task can return (choice over the rows).
get_random_task(min_points, max_points) ==
    LET min_completion_level == _get_min_completion_level(min_points, max_points)
    IN  IF min_completion_level = NULL THEN {None}
        ELSE LET tasks_at_min_level ==
                     _get_tasks_at_completion_level(min_points, max_points,
                                                    min_completion_level)
             IN  IF tasks_at_min_level = {} THEN {None}
                 ELSE tasks_at_min_level

\* get_task_counts_by_point_range counting as completed the tasks done in
\* the current round (t.times_done > level) instead of t.times_done > 0
get_task_counts_completed_in_round(min_points, max_points) ==
    LET min_completion_level == _get_min_completion_level(min_points, max_points)
        rows == ScopeRows(min_points, max_points)
        completed_tasks == Cardinality({t \in rows : times_done[t] > min_completion_level})
    IN  IF min_completion_level = NULL
        THEN [total |-> 0, completed |-> 0, remaining |-> 0,
              current_round |-> 1, tasks_at_current_level |-> 0]
        ELSE [total |-> Cardinality(rows), completed |-> completed_tasks,
              remaining |-> Cardinality(rows) - completed_tasks,
              current_round |-> min_completion_level + 1,
              tasks_at_current_level |->
                  Cardinality({t \in rows : times_done[t] = min_completion_level})]

\* get_task_counts_by_point_range reporting the level as the round
get_task_counts_round_from_zero(min_points, max_points) ==
    LET min_completion_level == _get_min_completion_level(min_points, max_points)
        rows == ScopeRows(min_points, max_points)
    IN  IF min_completion_level = NULL
        THEN [total |-> 0, completed |-> 0, remaining |-> 0,
              current_round |-> 1, tasks_at_current_level |-> 0]
        ELSE [total |-> Cardinality(rows),
              completed |-> Cardinality({t \in rows : times_done[t] > 0}),
              remaining |-> Cardinality(rows)
                              - Cardinality({t \in rows : times_done[t] > 0}),
              current_round |-> min_completion_level,
              tasks_at_current_level |->
                  Cardinality({t \in rows : times_done[t] = min_completion_level})]

\* get_task_counts_by_point_range whose current-level count omits the exam
get_task_counts_level_all_exams(min_points, max_points) ==
    LET min_completion_level == _get_min_completion_level(min_points, max_points)
        rows == ScopeRows(min_points, max_points)
    IN  IF min_completion_level = NULL
        THEN [total |-> 0, completed |-> 0, remaining |-> 0,
              current_round |-> 1, tasks_at_current_level |-> 0]
        ELSE [total |-> Cardinality(rows),
              completed |-> Cardinality({t \in rows : times_done[t] > 0}),
              remaining |-> Cardinality(rows)
                              - Cardinality({t \in rows : times_done[t] > 0}),
              current_round |-> min_completion_level + 1,
              tasks_at_current_level |->
                  Cardinality({t \in Tasks :
                                  /\ total_points(t) >= min_points
                                  /\ total_points(t) <= max_points
                                  /\ times_done[t] = min_completion_level})]

get_task_counts_by_point_range(min_points, max_points) ==
    LET min_completion_level == _get_min_completion_level(min_points, max_points)
        filter(t) == exam_id # None => worksheet_exam(t) = exam_id
        total_tasks ==
            Cardinality({t \in Tasks : /\ total_points(t) >= min_points
                                       /\ total_points(t) <= max_points
                                       /\ filter(t)})
        completed_tasks ==
            Cardinality({t \in Tasks : /\ total_points(t) >= min_points
                                       /\ total_points(t) <= max_points
                                       /\ times_done[t] > 0
                                       /\ filter(t)})
        tasks_at_current_level ==
            Cardinality({t \in Tasks : /\ total_points(t) >= min_points
                                       /\ total_points(t) <= max_points
                                       /\ times_done[t] = min_completion_level
                                       /\ filter(t)})
    IN  IF min_completion_level = NULL
        THEN [total |-> 0, completed |-> 0, remaining |-> 0,
              current_round |-> 1, tasks_at_current_level |-> 0]
        ELSE [total |-> total_tasks, completed |-> completed_tasks,
              remaining |-> total_tasks - completed_tasks,
              current_round |-> min_completion_level + 1,
              tasks_at_current_level |-> tasks_at_current_level]

\* an UPDATE that counts down
mark_task_undone(td, task_id) ==
    [td EXCEPT ![task_id] = @ - 1]

\* UPDATE tasks SET times_done = times_done + 1 WHERE id = ?
mark_task_done(td, task_id) ==
    IF task_id \in DOMAIN td THEN [td EXCEPT ![task_id] = @ + 1] ELSE td

----------------------------------------------------------------------------
(* AttemptRepository *)

\* an INSERT that leaves the status to the column's DEFAULT 'completed'
create_attempt_default_status(rows, task_id, status) ==
    Append(rows, [task_id |-> task_id, status |-> "completed",
                  total_time_seconds |-> NULL])

\* INSERT INTO solution_attempts (task_id, attempt_date, status)
create_attempt(rows, task_id, status) ==
    Append(rows, [task_id |-> task_id, status |-> status,
                  total_time_seconds |-> NULL])

\* UPDATE solution_attempts SET status = ? [, total_time_seconds = ?] WHERE id = ?
update_attempt_status(rows, attempt_id, status, total_time) ==
    IF attempt_id \notin DOMAIN rows THEN rows
    ELSE IF total_time # NULL
         THEN [rows EXCEPT ![attempt_id] =
                   [@ EXCEPT !.status = status, !.total_time_seconds = total_time]]
         ELSE [rows EXCEPT ![attempt_id] = [@ EXCEPT !.status = status]]

\* auto_save_progress without the condition on the status
auto_save_progress_any_status(rows, attempt_id, current_time) ==
    IF attempt_id \in DOMAIN rows
    THEN [rows EXCEPT ![attempt_id] = [@ EXCEPT !.total_time_seconds = current_time]]
    ELSE rows

\* UPDATE ... SET total_time_seconds = ? WHERE id = ? AND status = 'in_progress'
auto_save_progress(rows, attempt_id, current_time) ==
    IF attempt_id \in DOMAIN rows /\ rows[attempt_id].status = "in_progress"
    THEN [rows EXCEPT ![attempt_id] = [@ EXCEPT !.total_time_seconds = current_time]]
    ELSE rows

\* ids of the rows SELECTed WHERE sa.status = 'in_progress'
get_incomplete_attempts == {a \in DOMAIN attempts : attempts[a].status = "in_progress"}

\* a SELECT that returns sa.id in place of t.id
get_task_by_attempt_row_id(attempt_id) ==
    IF attempt_id \in DOMAIN attempts /\ attempt_id \in Tasks THEN attempt_id ELSE None

\* task id of the row joined to the attempt
get_task_by_attempt(attempt_id) ==
    IF attempt_id \in DOMAIN attempts THEN attempts[attempt_id].task_id ELSE None

\* a migration that also closes the rows left in_progress
_migrate_existing_data_unfinished(rows) ==
    [a \in DOMAIN rows |->
        [rows[a] EXCEPT !.status =
            IF rows[a].status = "completed" /\ rows[a].total_time_seconds # NULL
            THEN "completed" ELSE "cancelled"]]

\* DatabaseManager._migrate_existing_data: the UPDATE run at every startup
_migrate_existing_data(rows) ==
    [a \in DOMAIN rows |->
        IF rows[a].status = "completed"
        THEN [rows[a] EXCEPT !.status =
                 IF rows[a].total_time_seconds # NULL THEN "completed" ELSE "cancelled"]
        ELSE rows[a]]

----------------------------------------------------------------------------
(* TaskService: effect of each method on the store *)

\* a start_attempt that closes the attempt that was current
start_attempt_superseding(task_id) ==
    /\ Len(attempts) < MaxAttempts
    /\ attempts' = create_attempt(update_attempt_status(attempts, current_attempt_id,
                                                        "cancelled", NULL),
                                  task_id, "in_progress")
    /\ current_attempt_id' = Len(attempts) + 1
    /\ incs' = Append(incs, 0)
    /\ UNCHANGED times_done

start_attempt(task_id) ==
    /\ Len(attempts) < MaxAttempts
    /\ attempts' = create_attempt(attempts, task_id, "in_progress")
    /\ current_attempt_id' = Len(attempts) + 1
    /\ incs' = Append(incs, 0)
    /\ UNCHANGED times_done

resume_attempt(attempt_id) ==
    /\ current_attempt_id' = attempt_id
    /\ UNCHANGED <<attempts, times_done, incs>>

_auto_save_callback(current_time) ==
    /\ attempts' = IF current_attempt_id # None
                   THEN auto_save_progress(attempts, current_attempt_id, current_time)
                   ELSE attempts
    /\ UNCHANGED <<times_done, current_attempt_id, incs>>

\* complete_attempt up to and including the first commit
\* (update_attempt_status); the call is then at the mark_task_done line.
complete_attempt_status(total_time) ==
    /\ current_attempt_id # None
    /\ attempts' = update_attempt_status(attempts, current_attempt_id,
                                         "completed", total_time)
    /\ UNCHANGED <<times_done, current_attempt_id, incs>>

\* complete_attempt with mark_task_done called twice
complete_attempt_done_twice(task_id) ==
    /\ times_done' = mark_task_done(mark_task_done(times_done, task_id), task_id)
    /\ incs' = IF current_attempt_id \in DOMAIN incs
               THEN [incs EXCEPT ![current_attempt_id] = @ + 1] ELSE incs
    /\ current_attempt_id' = None
    /\ UNCHANGED attempts

\* complete_attempt from mark_task_done to the reset of current_attempt_id
complete_attempt_done(task_id) ==
    /\ times_done' = mark_task_done(times_done, task_id)
    /\ incs' = IF current_attempt_id \in DOMAIN incs
               THEN [incs EXCEPT ![current_attempt_id] = @ + 1] ELSE incs
    /\ current_attempt_id' = None
    /\ UNCHANGED attempts

\* cancel_attempt that also counts the task as done
cancel_attempt_counting ==
    /\ attempts' = IF current_attempt_id # None
                   THEN update_attempt_status(attempts, current_attempt_id,
                                              "cancelled", NULL)
                   ELSE attempts
    /\ times_done' = IF current_attempt_id # None
                     THEN mark_task_done(times_done, get_task_by_attempt(current_attempt_id))
                     ELSE times_done
    /\ current_attempt_id' = None
    /\ UNCHANGED incs

cancel_attempt ==
    /\ attempts' = IF current_attempt_id # None
                   THEN update_attempt_status(attempts, current_attempt_id,
                                              "cancelled", NULL)
                   ELSE attempts
    /\ current_attempt_id' = None
    /\ UNCHANGED <<times_done, incs>>

\* init_database whose UPDATE has no WHERE clause
init_database_unconditional ==
    /\ attempts' = [a \in DOMAIN attempts |->
                       [attempts[a] EXCEPT !.status =
                           IF attempts[a].total_time_seconds # NULL
                           THEN "completed" ELSE "cancelled"]]
    /\ UNCHANGED <<times_done, incs>>

\* DatabaseManager.init_database at process start
init_database ==
    /\ attempts' = _migrate_existing_data(attempts)
    /\ UNCHANGED <<times_done, incs>>

----------------------------------------------------------------------------
(* Initial state: an imported catalog, no attempt yet, process not started *)

Init ==
    /\ times_done = [t \in Tasks |-> 0]
    /\ attempts = <<>>
    /\ current_attempt_id = None
    /\ exam_id = None
    /\ pc = "down"
    /\ task = None
    /\ attempt_data = None
    /\ point_range = <<>>
    /\ task_counts = NoCounts
    /\ incs = <<>>
    /\ used = NoScope
    /\ now = 1
    /\ timers = <<>>
    /\ current_timer = None
    /\ join_until = 0
    /\ duration = NULL
    /\ saved = <<>>
    /\ stamps = <<>>
    /\ printed = "none"

ClearLocals ==
    /\ task' = None
    /\ attempt_data' = None
    /\ point_range' = <<>>
    /\ task_counts' = NoCounts

\* the threads and the LiveTimer objects end with the process
ClearTimers ==
    /\ timers' = <<>>
    /\ current_timer' = None
    /\ join_until' = 0
    /\ duration' = NULL

----------------------------------------------------------------------------
(* Process stop (kill, power loss, exit) at any point: memory is lost, the *)
(* committed rows stay.                                                    *)

Crash ==
    /\ pc # "down"
    /\ pc' = "down"
    /\ current_attempt_id' = None
    /\ exam_id' = None
    /\ ClearLocals
    /\ ClearTimers
    /\ now' = 1
    /\ UNCHANGED <<times_done, attempts, incs, used, stamps, printed, saved>>

----------------------------------------------------------------------------
(* Calls of the service by an arbitrary caller (Spec) *)

\* DatabaseManager().init_database(); TaskService(db_manager)
ApiRestart ==
    /\ pc = "down"
    /\ init_database
    /\ current_attempt_id' = None
    /\ exam_id' = None
    /\ pc' = "idle"
    /\ UNCHANGED <<locals, used, stamps, printed, timer_state>>

ApiStartAttempt(t) ==
    /\ pc = "idle"
    /\ start_attempt(t)
    /\ UNCHANGED <<exam_id, pc, locals, used, stamps, printed, timer_state>>

ApiResumeAttempt(a) ==
    /\ pc = "idle"
    /\ resume_attempt(a)
    /\ UNCHANGED <<exam_id, pc, locals, used, stamps, printed, timer_state>>

ApiAutoSave(v) ==
    /\ pc = "idle"
    /\ _auto_save_callback(v)
    /\ UNCHANGED <<exam_id, pc, locals, used, stamps, printed, timer_state>>

\* complete_attempt(t, total): rejected (nothing changes) when no attempt
\* is current, otherwise the first write is committed.
ApiCompleteAttempt(t, total) ==
    /\ pc = "idle"
    /\ times_done[t] < MaxDone
    /\ IF current_attempt_id = None
       THEN UNCHANGED vars
       ELSE /\ complete_attempt_status(total)
            /\ task' = t
            /\ pc' = "completing"
            /\ UNCHANGED <<exam_id, attempt_data, point_range, task_counts, used, stamps, printed, timer_state>>

ApiCompleteSecondWrite ==
    /\ pc = "completing"
    /\ complete_attempt_done(task)
    /\ task' = None
    /\ pc' = "idle"
    /\ UNCHANGED <<exam_id, attempt_data, point_range, task_counts, used, stamps, printed, timer_state>>

ApiCancelAttempt ==
    /\ pc = "idle"
    /\ cancel_attempt
    /\ UNCHANGED <<exam_id, pc, locals, used, stamps, printed, timer_state>>

\* the recovery menu's direct write for a listed attempt
ApiDiscard(a) ==
    /\ pc = "idle"
    /\ a \in get_incomplete_attempts
    /\ attempts' = update_attempt_status(attempts, a, "cancelled", NULL)
    /\ UNCHANGED <<times_done, current_attempt_id, incs, exam_id, pc, locals, used, stamps, printed, timer_state>>

ApiCrash ==
    /\ pc \in {"idle", "completing"}
    /\ Crash

Next ==
    \/ ApiRestart
    \/ \E t \in Tasks : ApiStartAttempt(t)
    \/ \E a \in DOMAIN attempts : ApiResumeAttempt(a)
    \/ \E v \in Times : ApiAutoSave(v)
    \/ \E t \in Tasks, total \in Times : ApiCompleteAttempt(t, total)
    \/ ApiCompleteSecondWrite
    \/ ApiCancelAttempt
    \/ \E a \in DOMAIN attempts : ApiDiscard(a)
    \/ ApiCrash

Spec == Init /\ [][Next]_vars

----------------------------------------------------------------------------
(* The console program: main() and ConsoleUI (SpecUI) *)

\* main(): init_database, select_exam, TaskService(db_manager, exam_id),
\* then show_recovery_options, which returns at once when nothing is listed
Startup(e) ==
    /\ pc = "down"
    /\ init_database
    /\ current_attempt_id' = None
    /\ exam_id' = e
    /\ pc' = IF {a \in DOMAIN attempts' : attempts'[a].status = "in_progress"} = {}
             THEN "menu" ELSE "recovery"
    /\ UNCHANGED <<locals, used, stamps, printed, timer_state>>

\* show_recovery_options, choice 'a'
RecoveryDiscardAll ==
    /\ pc = "recovery"
    /\ attempts' = [a \in DOMAIN attempts |->
                       IF a \in get_incomplete_attempts
                       THEN update_attempt_status(attempts, a, "cancelled", NULL)[a]
                       ELSE attempts[a]]
    /\ pc' = "menu"
    /\ UNCHANGED <<times_done, current_attempt_id, incs, exam_id, locals, used, stamps, printed, timer_state>>

\* show_recovery_options, choice 1..n: resume_task_interactive(task, attempt)
RecoveryChoose(a) ==
    /\ pc = "recovery"
    /\ a \in get_incomplete_attempts
    /\ get_task_by_attempt(a) # None
    /\ task' = get_task_by_attempt(a)
    /\ attempt_data' = a
    /\ pc' = "resume_menu"
    /\ UNCHANGED <<store, exam_id, point_range, task_counts, used, stamps, printed, timer_state>>

\* show_recovery_options, Enter or any other input
RecoverySkip ==
    /\ pc = "recovery"
    /\ pc' = "menu"
    /\ UNCHANGED <<store, exam_id, locals, used, stamps, printed, timer_state>>

\* resume_task_interactive, choice 'd'
ResumeDiscard ==
    /\ pc = "resume_menu"
    /\ attempts' = update_attempt_status(attempts, attempt_data, "cancelled", NULL)
    /\ pc' = "menu"
    /\ ClearLocals
    /\ UNCHANGED <<times_done, current_attempt_id, incs, exam_id, used, stamps, printed, timer_state>>

\* resume_task_interactive, choice 'n'
ResumeNew ==
    /\ pc = "resume_menu"
    /\ start_attempt(task)
    /\ pc' = "timing"
    /\ attempt_data' = None
    /\ UNCHANGED <<exam_id, task, point_range, task_counts, used, stamps, printed, timer_state>>

\* resume_task_interactive, any other choice
ResumeContinue ==
    /\ pc = "resume_menu"
    /\ resume_attempt(attempt_data)
    /\ pc' = "timing"
    /\ attempt_data' = None
    /\ UNCHANGED <<exam_id, task, point_range, task_counts, used, stamps, printed, timer_state>>

\* main loop, choice '1': get_point_range, get_random_task and, when a task
\* is returned, get_task_counts_by_point_range
SelectTask(min_points, max_points) ==
    /\ pc = "menu"
    /\ \E t \in get_random_task(min_points, max_points) :
          /\ task' = t
          /\ task_counts' = IF t # None
                            THEN get_task_counts_by_point_range(min_points, max_points)
                            ELSE NoCounts
          /\ pc' = IF t # None THEN "offered" ELSE "no_task"
    /\ point_range' = <<min_points, max_points>>
    /\ UNCHANGED <<store, exam_id, attempt_data, timer_state, stamps, printed>>

\* main loop: "Keine Aufgabe im gewaehlten Punktebereich gefunden!"
ReportNoTask ==
    /\ pc = "no_task"
    /\ pc' = "menu"
    /\ ClearLocals
    /\ UNCHANGED <<store, exam_id, used, stamps, printed, timer_state>>

\* solve_task_interactive, choice 's'
SkipTask ==
    /\ pc = "offered"
    /\ pc' = "menu"
    /\ ClearLocals
    /\ UNCHANGED <<store, exam_id, used, stamps, printed, timer_state>>

\* solve_task_interactive: start_attempt(task['id']), time_task_interactive;
\* task_counts and point_range are not read again after display_task_info
StartSolve ==
    /\ pc = "offered"
    /\ start_attempt(task)
    /\ pc' = "timing"
    /\ point_range' = <<>>
    /\ task_counts' = NoCounts
    /\ UNCHANGED <<exam_id, task, attempt_data, used, stamps, printed, timer_state>>

\* the timer's checkpoint while time_task_interactive runs
AutoSave(v) ==
    /\ pc = "timing"
    /\ _auto_save_callback(v)
    /\ UNCHANGED <<exam_id, pc, locals, used, stamps, printed, timer_state>>

\* timer stopped with Enter and the finish prompt answered with Enter:
\* complete_attempt(task['id'], total_time), up to its first commit
FinishTask(total) ==
    /\ pc = "timing"
    /\ times_done[task] < MaxDone
    /\ complete_attempt_status(total)
    /\ pc' = "completing"
    /\ UNCHANGED <<exam_id, locals, used, stamps, printed, timer_state>>

CompleteSecondWrite ==
    /\ pc = "completing"
    /\ complete_attempt_done(task)
    /\ pc' = "menu"
    /\ ClearLocals
    /\ UNCHANGED <<exam_id, used, stamps, printed, timer_state>>

\* 'q', KeyboardInterrupt, or 'c' at the finish prompt: cancel_attempt()
CancelTask ==
    /\ pc = "timing"
    /\ cancel_attempt
    /\ pc' = "menu"
    /\ ClearLocals
    /\ UNCHANGED <<exam_id, used, stamps, printed, timer_state>>

\* set_exam_id that clears the filter of the repository
SwitchExamUnfiltered(e) ==
    /\ pc = "menu"
    /\ exam_id' = None
    /\ UNCHANGED <<store, pc, locals, used, stamps, printed, timer_state>>

\* main loop, choice '3': set_exam_id(select_exam(...))
SwitchExam(e) ==
    /\ pc = "menu"
    /\ exam_id' = e
    /\ UNCHANGED <<store, pc, locals, used, stamps, printed, timer_state>>

\* the process ends anywhere (choice '4', kill, power loss)
Stop ==
    /\ pc \notin {"down", "idle"}
    /\ Crash

\* every step of the console program except the selection
ConsoleStep ==
    \/ \E e \in Exams : Startup(e)
    \/ RecoveryDiscardAll
    \/ \E a \in DOMAIN attempts : RecoveryChoose(a)
    \/ RecoverySkip
    \/ ResumeDiscard
    \/ ResumeNew
    \/ ResumeContinue
    \/ ReportNoTask
    \/ SkipTask
    \/ StartSolve
    \/ \E v \in Times : AutoSave(v)
    \/ \E total \in Times : FinishTask(total)
    \/ CompleteSecondWrite
    \/ CancelTask
    \/ \E e \in Exams : SwitchExam(e)
    \/ Stop

NextUI ==
    \/ \E lo \in PointInputs, hi \in PointInputs :
          SelectTask(lo, hi) /\ UNCHANGED used
    \/ ConsoleStep

SpecUI == Init /\ [][NextUI]_vars

\* complete_attempt, update_attempt_status raises: nothing is committed and
\* nothing catches the exception (main.py catches KeyboardInterrupt only)
FinishTaskRaises ==
    /\ pc = "timing"
    /\ current_attempt_id # None
    /\ pc' = "raised"
    /\ UNCHANGED <<store, exam_id, locals, used, stamps, printed, timer_state>>

\* complete_attempt, mark_task_done raises after the commit of the status
CompleteSecondWriteRaises ==
    /\ pc = "completing"
    /\ pc' = "raised"
    /\ UNCHANGED <<store, exam_id, locals, used, stamps, printed, timer_state>>

\* The console program with writes of complete_attempt that can fail
NextFailing ==
    \/ NextUI
    \/ FinishTaskRaises
    \/ CompleteSecondWriteRaises

SpecFailing == Init /\ [][NextFailing]_vars

\* The console program without the times: no checkpoint is written and
\* every total time is 0.  Selection, exams, completion, cancellation,
\* process stop and recovery are those of SpecUI.
NextExams ==
    \/ \E lo \in PointInputs, hi \in PointInputs :
          SelectTask(lo, hi) /\ UNCHANGED used
    \/ \E e \in Exams : Startup(e)
    \/ RecoveryDiscardAll
    \/ \E a \in DOMAIN attempts : RecoveryChoose(a)
    \/ RecoverySkip
    \/ ResumeDiscard
    \/ ResumeNew
    \/ ResumeContinue
    \/ ReportNoTask
    \/ SkipTask
    \/ StartSolve
    \/ FinishTask(0)
    \/ CompleteSecondWrite
    \/ CancelTask
    \/ \E e \in Exams : SwitchExam(e)
    \/ Stop

SpecExams == Init /\ [][NextExams]_vars

\* The console program with the history of the scopes selected from
NextScoped ==
    \/ \E lo \in PointInputs, hi \in PointInputs :
          /\ SelectTask(lo, hi)
          /\ used' = IF used \in {NoScope, <<lo, hi, exam_id>>}
                     THEN <<lo, hi, exam_id>> ELSE Mixed
    \/ ConsoleStep

SpecScoped == Init /\ [][NextScoped]_vars

\* main loop, choice '1' with the range chosen at the first selection, on a
\* scope that holds at least one task
RoundSelect(min_points, max_points) ==
    /\ used \in {NoScope, <<min_points, max_points, exam_id>>}
    /\ ScopeRows(min_points, max_points) # {}
    /\ SelectTask(min_points, max_points)
    /\ used' = <<min_points, max_points, exam_id>>

\* the user's steps of a run in which every selection is made from the same
\* scope and every task offered is solved and completed
RoundStep ==
    \/ \E e \in Exams : Startup(e)
    \/ \E lo \in PointInputs, hi \in PointInputs : RoundSelect(lo, hi)
    \/ StartSolve
    \/ \E total \in Times : FinishTask(total)
    \/ CompleteSecondWrite

\* One run of the console program in which every selection is made from
\* the same scope and is completed, with the checkpoints of the timer.  The
\* user goes on selecting and completing (weak fairness of their steps).
NextRounds ==
    \/ RoundStep
    \/ \E v \in Times : AutoSave(v)

SpecRounds == Init /\ [][NextRounds]_vars /\ WF_vars(RoundStep)

----------------------------------------------------------------------------
(* LiveTimer (timer/timer.py).  The clock counts half seconds, so that     *)
(* int() of an elapsed time truncates; initial_time, auto_save_interval    *)
(* and the values handed to the callback are whole seconds.                *)

MaxClock == 5
MaxInitial == 1
AutoSaveInterval == 1

Seconds(n) == n * 2
int(x) == x \div 2
Max(a, b) == IF a >= b THEN a ELSE b

\* LiveTimer.__init__: the fields, then the locals of the thread
\* (thread: none, ready, check, call, write, sleep, exited) and the history
\* (run: time spent running, run_call and run_saved: run when the pending
\* and the last finished callback were due, rows: rows the last checkpoint
\* updated, failed: the last callback raised)
LiveTimer ==
    [start_time |-> NULL, pause_time |-> 0, is_running |-> FALSE,
     is_paused |-> FALSE, total_paused_time |-> 0, stop_timer |-> FALSE,
     last_auto_save |-> 0, initial_time |-> 0,
     thread |-> "none", elapsed |-> 0, current_time |-> 0,
     attempt_id |-> None, wake |-> 0,
     run |-> 0, run_call |-> 0, run_saved |-> 0, rows |-> 0, failed |-> FALSE,
     owner |-> None]

\* get_elapsed_time with the paused branch reading the clock
get_elapsed_time_unfrozen(tm, t) ==
    IF tm.start_time \in {NULL, 0}
    THEN Seconds(tm.initial_time)
    ELSE Max(0, t - tm.start_time - tm.total_paused_time + Seconds(tm.initial_time))

\* get_elapsed_time() at clock t
get_elapsed_time(tm, t) ==
    IF tm.start_time \in {NULL, 0}
    THEN Seconds(tm.initial_time)
    ELSE LET elapsed == IF tm.is_paused
                        THEN tm.pause_time - tm.start_time - tm.total_paused_time
                        ELSE t - tm.start_time - tm.total_paused_time
         IN  Max(0, elapsed + Seconds(tm.initial_time))

\* start(resume_from_seconds) at clock t; the new thread is runnable
start(tm, resume_from_seconds, t) ==
    [tm EXCEPT !.initial_time = resume_from_seconds,
               !.start_time = t,
               !.is_running = TRUE,
               !.is_paused = FALSE,
               !.stop_timer = FALSE,
               !.total_paused_time = 0,
               !.last_auto_save = t,
               !.thread = "ready",
               !.wake = t]

\* pause() without its condition
pause_always(tm) == TRUE

\* the condition of pause()
pause_allowed(tm) ==
    tm.is_running /\ ~tm.is_paused

\* pause(): self.pause_time = time.time()
pause_time_set(tm, t) == [tm EXCEPT !.pause_time = t]

\* pause(): self.is_paused = True
pause_flag_set(tm) == [tm EXCEPT !.is_paused = TRUE]

\* the condition of resume()
resume_allowed(tm) ==
    tm.is_running /\ tm.is_paused

\* resume(): self.total_paused_time += time.time() - self.pause_time
resume_time_added(tm, t) ==
    [tm EXCEPT !.total_paused_time = @ + (t - tm.pause_time)]

\* resume(): self.is_paused = False
resume_flag_cleared(tm) == [tm EXCEPT !.is_paused = FALSE]

\* stop() up to the join, when is_running
stop_flags(tm, t) ==
    [tm EXCEPT !.total_paused_time = IF tm.is_paused
                                     THEN @ + (t - tm.pause_time) ELSE @,
               !.is_running = FALSE,
               !.stop_timer = TRUE]

\* stop(): return int(self.get_elapsed_time())
stop_value(tm, t) == int(get_elapsed_time(tm, t))

loop_forever(tm) == TRUE

\* the condition of _display_timer's while loop
loop_continues(tm) ==
    tm.is_running /\ ~tm.stop_timer

\* the condition of the checkpoint in _display_timer (a callback is always
\* passed by TaskService)
auto_save_due(tm, t) ==
    /\ ~tm.is_paused
    /\ t - tm.last_auto_save >= Seconds(AutoSaveInterval)

----------------------------------------------------------------------------
(* The background thread of a timer (_display_timer), one action per       *)
(* stretch between two points where the foreground can run.  Only          *)
(* differences of clock readings are kept, so the clock is set back when   *)
(* no timer is left.                                                       *)

Remove(seq, i) == [k \in 1..(Len(seq) - 1) |-> IF k < i THEN seq[k] ELSE seq[k + 1]]

\* the timers left when timer i is no longer held by the service: a thread
\* that is not inside an iteration finds the loop condition false and ends
\* without another effect, and the object goes with it
Released(seq, i) ==
    IF seq[i].thread \in {"none", "exited", "ready", "sleep"}
    THEN Remove(seq, i) ELSE seq

Reset(seq, t) == IF seq = <<>> THEN 1 ELSE t

\* the iteration ends in time.sleep(1)
Asleep(tm, t) ==
    [tm EXCEPT !.thread = "sleep", !.wake = t + Seconds(1),
               !.elapsed = 0, !.current_time = 0]

\* timer i becomes tm at the end of an iteration of its thread
EndIteration(i, tm) ==
    /\ timers' = IF i = current_timer
                 THEN [timers EXCEPT ![i] = tm] ELSE Remove(timers, i)
    /\ current_timer' = IF current_timer > i
                        THEN current_timer - 1 ELSE current_timer
    /\ now' = Reset(timers', now)

\* the thread starts or wakes from time.sleep(1): the while condition, then
\* elapsed = self.get_elapsed_time(); the thread ends when the condition
\* fails
Tick(i) ==
    LET tm == timers[i] IN
    /\ tm.thread \in {"ready", "sleep"}
    /\ now >= tm.wake
    /\ timers' = [timers EXCEPT ![i] =
                     IF loop_continues(tm)
                     THEN [tm EXCEPT !.thread = "check",
                                     !.elapsed = get_elapsed_time(tm, now),
                                     !.attempt_id = None,
                                     !.rows = 0,
                                     !.wake = 0]
                     ELSE [tm EXCEPT !.thread = "exited",
                                     !.attempt_id = None,
                                     !.rows = 0,
                                     !.wake = 0]]
    /\ UNCHANGED <<store, exam_id, pc, locals, used, stamps, printed, now, current_timer,
                   join_until, duration, saved>>

\* current_time = time.time() and the test of the checkpoint; without a
\* checkpoint the iteration ends
Check(i) ==
    LET tm == timers[i] IN
    /\ tm.thread = "check"
    /\ IF auto_save_due(tm, now)
       THEN /\ timers' = [timers EXCEPT ![i] =
                             [tm EXCEPT !.thread = "call",
                                        !.current_time = now,
                                        !.run_call = tm.run]]
            /\ UNCHANGED <<now, current_timer>>
       ELSE EndIteration(i, Asleep(tm, now))
    /\ UNCHANGED <<store, exam_id, pc, locals, used, stamps, printed, join_until, duration, saved>>

\* self.auto_save_callback(int(elapsed)) enters _auto_save_callback, which
\* returns at once when no attempt is current
Callback(i) ==
    LET tm == timers[i] IN
    /\ tm.thread = "call"
    /\ IF current_attempt_id = None
       THEN EndIteration(i, [Asleep(tm, now) EXCEPT
                                !.last_auto_save = tm.current_time,
                                !.run_saved = tm.run_call,
                                !.failed = FALSE])
       ELSE /\ timers' = [timers EXCEPT ![i] =
                             [tm EXCEPT !.thread = "write",
                                        !.attempt_id = current_attempt_id]]
            /\ UNCHANGED <<now, current_timer>>
    /\ UNCHANGED <<store, exam_id, pc, locals, used, stamps, printed, join_until, duration, saved>>

\* the history of the checkpoints: the value last written for an attempt
Saved(hist, attempt_id, value) ==
    [a \in 1..Max(Len(hist), attempt_id) |->
        IF a = attempt_id THEN value
        ELSE IF a \in DOMAIN hist THEN hist[a] ELSE NULL]

\* auto_save_progress(attempt_id, current_time) commits, then
\* self.last_auto_save = current_time
WriteDone(i) ==
    LET tm == timers[i]
        hit == attempts[tm.attempt_id].status = "in_progress"
    IN
    /\ tm.thread = "write"
    /\ attempts' = auto_save_progress(attempts, tm.attempt_id, int(tm.elapsed))
    /\ saved' = IF hit THEN Saved(saved, tm.attempt_id, int(tm.elapsed)) ELSE saved
    /\ EndIteration(i, [Asleep(tm, now) EXCEPT
                           !.last_auto_save = tm.current_time,
                           !.run_saved = tm.run_call,
                           !.rows = IF hit THEN 1 ELSE 0,
                           !.failed = FALSE])
    /\ UNCHANGED <<times_done, current_attempt_id, incs, exam_id, pc, locals,
                   used, stamps, printed, join_until, duration>>

\* a failing callback after which last_auto_save is advanced all the same
WriteRaisesSaved(i) ==
    LET tm == timers[i] IN
    /\ tm.thread = "write"
    /\ EndIteration(i, [Asleep(tm, now) EXCEPT
                           !.last_auto_save = tm.current_time,
                           !.failed = TRUE])
    /\ UNCHANGED <<store, exam_id, pc, locals, used, stamps, printed, join_until, duration, saved>>

\* auto_save_progress raises (sqlite3.Error): except Exception: pass
WriteRaises(i) ==
    LET tm == timers[i] IN
    /\ tm.thread = "write"
    /\ EndIteration(i, [Asleep(tm, now) EXCEPT !.failed = TRUE])
    /\ UNCHANGED <<store, exam_id, pc, locals, used, stamps, printed, join_until, duration, saved>>

\* the clock moves on once a timer was started; pause() and resume() read
\* it once and end at once
Advance ==
    /\ now < MaxClock
    /\ \E i \in DOMAIN timers : timers[i].thread # "none"
    /\ pc \notin {"pausing", "resuming"}
    /\ now' = now + 1
    /\ timers' = [i \in DOMAIN timers |->
                     IF /\ ~timers[i].is_paused
                        /\ \/ timers[i].is_running
                           \/ i = current_timer /\ join_until # 0
                     THEN [timers[i] EXCEPT !.run = @ + 1]
                     ELSE timers[i]]
    /\ UNCHANGED <<store, exam_id, pc, locals, used, stamps, printed, current_timer,
                   join_until, duration, saved>>

----------------------------------------------------------------------------
(* The foreground's calls of the current timer.  pause() and resume() are  *)
(* two assignments each, stop() waits in join: the thread can run between. *)

SetTimer(tm) == timers' = [timers EXCEPT ![current_timer] = tm]

JoinReturns ==
    \/ timers[current_timer].thread \in {"none", "exited"}
    \/ now >= join_until

----------------------------------------------------------------------------
(* One LiveTimer driven by an arbitrary caller (SpecTimer): the service    *)
(* has an attempt in progress, the timer is created as in                  *)
(* time_task_interactive and then called in any order.                     *)

\* TaskService.start_attempt(1); LiveTimer(auto_save_callback=
\* self._auto_save_callback, auto_save_interval=...)
TimerCreate ==
    /\ pc = "down"
    /\ start_attempt(1)
    /\ timers' = <<LiveTimer>>
    /\ current_timer' = 1
    /\ pc' = "timing"
    /\ UNCHANGED <<exam_id, locals, used, stamps, printed, now, join_until, duration, saved>>

\* start(resume_from_seconds), once per timer
TimerStart(resume_from_seconds) ==
    /\ pc = "timing"
    /\ timers[current_timer].thread = "none"
    /\ SetTimer([start(timers[current_timer], resume_from_seconds, now)
                    EXCEPT !.owner = current_attempt_id])
    /\ UNCHANGED <<store, exam_id, pc, locals, used, stamps, printed, now, current_timer,
                   join_until, duration, saved>>

\* pause() in any state: nothing happens unless running and not paused
TimerPause ==
    /\ pc = "timing"
    /\ IF pause_allowed(timers[current_timer])
       THEN /\ SetTimer(pause_time_set(timers[current_timer], now))
            /\ pc' = "pausing"
       ELSE UNCHANGED <<timers, pc>>
    /\ UNCHANGED <<store, exam_id, locals, used, stamps, printed, now, current_timer,
                   join_until, duration, saved>>

PauseEnd ==
    /\ pc = "pausing"
    /\ SetTimer(pause_flag_set(timers[current_timer]))
    /\ pc' = "timing"
    /\ UNCHANGED <<store, exam_id, locals, used, stamps, printed, now, current_timer,
                   join_until, duration, saved>>

\* resume() in any state: nothing happens unless running and paused
TimerResume ==
    /\ pc = "timing"
    /\ IF resume_allowed(timers[current_timer])
       THEN /\ SetTimer(resume_time_added(timers[current_timer], now))
            /\ pc' = "resuming"
       ELSE UNCHANGED <<timers, pc>>
    /\ UNCHANGED <<store, exam_id, locals, used, stamps, printed, now, current_timer,
                   join_until, duration, saved>>

ResumeEnd ==
    /\ pc = "resuming"
    /\ SetTimer(resume_flag_cleared(timers[current_timer]))
    /\ pc' = "timing"
    /\ UNCHANGED <<store, exam_id, locals, used, stamps, printed, now, current_timer,
                   join_until, duration, saved>>

\* stop() in any state: an idle timer returns its elapsed time at once
TimerStop ==
    /\ pc = "timing"
    /\ IF timers[current_timer].is_running
       THEN /\ SetTimer(stop_flags(timers[current_timer], now))
            /\ join_until' = now + Seconds(1)
            /\ pc' = "stopping"
            /\ UNCHANGED duration
       ELSE /\ duration' = stop_value(timers[current_timer], now)
            /\ UNCHANGED <<timers, join_until, pc>>
    /\ UNCHANGED <<store, exam_id, locals, used, stamps, printed, now, current_timer, saved>>

\* the join ends and stop() returns
TimerStopReturn ==
    /\ pc = "stopping"
    /\ JoinReturns
    /\ duration' = stop_value(timers[current_timer], now)
    /\ join_until' = 0
    /\ pc' = "timing"
    /\ UNCHANGED <<store, exam_id, locals, used, stamps, printed, now, timers, current_timer, saved>>

NextTimer ==
    \/ TimerCreate
    \/ \E r \in 0..MaxInitial : TimerStart(r)
    \/ TimerPause
    \/ PauseEnd
    \/ TimerResume
    \/ ResumeEnd
    \/ TimerStop
    \/ TimerStopReturn
    \/ \E i \in DOMAIN timers : Tick(i)
    \/ \E i \in DOMAIN timers : Check(i)
    \/ \E i \in DOMAIN timers : Callback(i)
    \/ \E i \in DOMAIN timers : WriteDone(i)
    \/ \E i \in DOMAIN timers : WriteRaises(i)
    \/ Advance

SpecTimer == Init /\ [][NextTimer]_vars

----------------------------------------------------------------------------
(* The console program with its timer (SpecSession): solve_task_interactive *)
(* and resume_task_interactive around time_task_interactive, with the       *)
(* threads of the timers running beside the foreground.  The session is     *)
(* that of the first attempt of the store: its timing, its interruption     *)
(* and its recovery after a restart.                                        *)

\* self.current_timer = LiveTimer(...); self.current_timer.start(...)
NewTimer(resume_from_seconds) ==
    /\ timers' = Append(timers, [start(LiveTimer, resume_from_seconds, now)
                                    EXCEPT !.owner = current_attempt_id])
    /\ current_timer' = Len(timers) + 1

\* self.current_timer = None: the timer lives on only with its thread
DropTimer ==
    /\ timers' = Released(timers, current_timer)
    /\ current_timer' = None
    /\ now' = Reset(timers', now)

\* the column as it is, NULL included
elapsed_time_raw(attempt_id) == attempts[attempt_id].total_time_seconds

\* 'elapsed_time': row[2] or 0 of the entry chosen in the recovery menu
elapsed_time(attempt_id) ==
    IF attempts[attempt_id].total_time_seconds = NULL
    THEN 0 ELSE attempts[attempt_id].total_time_seconds

\* solve_task_interactive: start_attempt(task['id']), then
\* time_task_interactive up to its input() prompt
TimedStartSolve ==
    /\ pc = "offered"
    /\ attempts = <<>>
    /\ start_attempt(task)
    /\ pc' = "prompt"
    /\ point_range' = <<>>
    /\ task_counts' = NoCounts
    /\ UNCHANGED <<exam_id, task, attempt_data, used, stamps, printed, timer_state>>

\* resume_task_interactive, any other choice: resume_attempt, then
\* time_task_interactive(task, elapsed_time) up to its prompt
TimedResumeContinue ==
    /\ pc = "resume_menu"
    /\ elapsed_time(attempt_data) <= MaxInitial
    /\ resume_attempt(attempt_data)
    /\ pc' = "prompt"
    /\ UNCHANGED <<exam_id, locals, used, stamps, printed, timer_state>>

\* time_task_interactive after the prompt: the timer is created and started
StartTimer ==
    /\ pc = "prompt"
    /\ NewTimer(IF attempt_data = None THEN 0 ELSE elapsed_time(attempt_data))
    /\ attempt_data' = None
    /\ pc' = "timing"
    /\ UNCHANGED <<store, exam_id, task, point_range, task_counts, used, stamps, printed,
                   now, join_until, duration, saved>>

\* key ' ': resume() if is_paused, else pause()
KeySpace ==
    IF pc = "timing" /\ timers[current_timer].is_paused
    THEN TimerResume ELSE TimerPause

\* key Enter: break, then duration = self.current_timer.stop()
KeyEnter ==
    /\ pc = "timing"
    /\ SetTimer(stop_flags(timers[current_timer], now))
    /\ join_until' = now + Seconds(1)
    /\ pc' = "stopping"
    /\ UNCHANGED <<store, exam_id, locals, used, stamps, printed, now, current_timer, duration, saved>>

\* stop() returns: duration, self.current_timer = None, return duration
EnterReturn ==
    /\ pc = "stopping"
    /\ JoinReturns
    /\ duration' = stop_value(timers[current_timer], now)
    /\ DropTimer
    /\ join_until' = 0
    /\ pc' = "finish"
    /\ UNCHANGED <<store, exam_id, locals, used, stamps, printed, saved>>

\* key 'q' or KeyboardInterrupt: self.current_timer.stop()
KeyQuit ==
    /\ pc = "timing"
    /\ SetTimer(stop_flags(timers[current_timer], now))
    /\ join_until' = now + Seconds(1)
    /\ pc' = "quitting"
    /\ UNCHANGED <<store, exam_id, locals, used, stamps, printed, now, current_timer, duration, saved>>

\* stop() returns: self.current_timer = None, return None
QuitReturn ==
    /\ pc = "quitting"
    /\ JoinReturns
    /\ DropTimer
    /\ join_until' = 0
    /\ pc' = "cancelling"
    /\ UNCHANGED <<store, exam_id, locals, used, stamps, printed, duration, saved>>

\* finish prompt answered with Enter: complete_attempt(task['id'],
\* total_time), up to its first commit
FinishComplete ==
    /\ pc = "finish"
    /\ times_done[task] < MaxDone
    /\ complete_attempt_status(duration)
    /\ duration' = NULL
    /\ pc' = "completing"
    /\ UNCHANGED <<exam_id, locals, used, stamps, printed, now, timers, current_timer,
                   join_until, saved>>

TimedCancelRunning ==
    /\ pc \in {"timing", "finish", "cancelling"}
    /\ cancel_attempt
    /\ duration' = NULL
    /\ pc' = "menu"
    /\ ClearLocals
    /\ UNCHANGED <<exam_id, used, stamps, printed, now, timers, current_timer, join_until, saved>>

\* 'c' at the finish prompt, or total_time is None: cancel_attempt()
TimedCancel ==
    /\ pc \in {"finish", "cancelling"}
    /\ cancel_attempt
    /\ duration' = NULL
    /\ pc' = "menu"
    /\ ClearLocals
    /\ UNCHANGED <<exam_id, used, stamps, printed, now, timers, current_timer, join_until, saved>>

NextSession ==
    \/ Startup(2)
    \/ RecoveryDiscardAll
    \/ \E a \in DOMAIN attempts : RecoveryChoose(a)
    \/ RecoverySkip
    \/ ResumeDiscard
    \/ TimedResumeContinue
    \/ SelectTask(7, 7) /\ UNCHANGED used
    \/ TimedStartSolve
    \/ StartTimer
    \/ KeySpace
    \/ PauseEnd
    \/ ResumeEnd
    \/ KeyEnter
    \/ EnterReturn
    \/ KeyQuit
    \/ QuitReturn
    \/ FinishComplete
    \/ CompleteSecondWrite
    \/ TimedCancel
    \/ Stop
    \/ \E i \in DOMAIN timers : Tick(i)
    \/ \E i \in DOMAIN timers : Check(i)
    \/ \E i \in DOMAIN timers : Callback(i)
    \/ \E i \in DOMAIN timers : WriteDone(i)
    \/ Advance

SpecSession == Init /\ [][NextSession]_vars

----------------------------------------------------------------------------
(* One attempt after another in one process (SpecHandover): the console    *)
(* program without pause, recovery and process stop, so that the thread of *)
(* a stopped timer can still be inside an iteration when the next attempt  *)
(* is started.                                                             *)

\* solve_task_interactive: start_attempt(task['id']), then
\* time_task_interactive up to its input() prompt, for any attempt
NextStartSolve ==
    /\ pc = "offered"
    /\ start_attempt(task)
    /\ pc' = "prompt"
    /\ point_range' = <<>>
    /\ task_counts' = NoCounts
    /\ UNCHANGED <<exam_id, task, attempt_data, used, stamps, printed, timer_state>>

NextHandover ==
    \/ Startup(2)
    \/ SelectTask(7, 7) /\ UNCHANGED used
    \/ NextStartSolve
    \/ StartTimer
    \/ KeyEnter
    \/ EnterReturn
    \/ KeyQuit
    \/ QuitReturn
    \/ FinishComplete
    \/ CompleteSecondWrite
    \/ TimedCancel
    \/ \E i \in DOMAIN timers : Tick(i)
    \/ \E i \in DOMAIN timers : Check(i)
    \/ \E i \in DOMAIN timers : Callback(i)
    \/ \E i \in DOMAIN timers : WriteDone(i)
    \/ Advance

SpecHandover == Init /\ [][NextHandover]_vars

----------------------------------------------------------------------------
(* The rows with their time stamps (SpecListing).  CURRENT_TIMESTAMP has a *)
(* resolution of one second; the clock is the one of the timer, which      *)
(* here keeps running across restarts.                                     *)

\* INSERT INTO solution_attempts: created_at and last_updated take their
\* DEFAULT CURRENT_TIMESTAMP
inserted(st, t) ==
    Append(st, [created_at |-> int(t), last_updated |-> int(t), written |-> int(t)])

\* an UPDATE that leaves last_updated alone
updated_silently(st, attempt_id, t) ==
    IF attempt_id \in DOMAIN st
    THEN [st EXCEPT ![attempt_id] = [@ EXCEPT !.written = int(t)]]
    ELSE st

\* UPDATE solution_attempts SET ..., last_updated = CURRENT_TIMESTAMP WHERE id = ?
updated(st, attempt_id, t) ==
    IF attempt_id \in DOMAIN st
    THEN [st EXCEPT ![attempt_id] = [@ EXCEPT !.last_updated = int(t), !.written = int(t)]]
    ELSE st

\* _migrate_existing_data: last_updated = COALESCE(created_at,
\* CURRENT_TIMESTAMP) WHERE status IS NULL OR status = 'completed'
migrated(st, rows, t) ==
    [a \in DOMAIN st |->
        IF rows[a].status = "completed"
        THEN [st[a] EXCEPT !.last_updated = st[a].created_at, !.written = int(t)]
        ELSE st[a]]

\* the orders in which the elements of a set can be returned
Orders(S) ==
    {s \in [1..Cardinality(S) -> S] :
        \A i, j \in 1..Cardinality(S) : i # j => s[i] # s[j]}

\* the SELECT without its ORDER BY
get_incomplete_attempts_unordered ==
    {[i \in DOMAIN s |->
         [attempt_id |-> s[i],
          task_id |-> attempts[s[i]].task_id,
          elapsed_time |-> elapsed_time(s[i]),
          last_updated |-> stamps[s[i]].last_updated,
          total_points |-> total_points(attempts[s[i]].task_id)]] :
     s \in Orders(get_incomplete_attempts)}

\* AttemptRepository.get_incomplete_attempts: the rows WHERE status =
\* 'in_progress', joined to their task, ORDER BY last_updated DESC (rows with
\* the same last_updated in any order); every list the call can return
get_incomplete_attempts_ordered ==
    {[i \in DOMAIN s |->
         [attempt_id |-> s[i],
          task_id |-> attempts[s[i]].task_id,
          elapsed_time |-> elapsed_time(s[i]),
          last_updated |-> stamps[s[i]].last_updated,
          total_points |-> total_points(attempts[s[i]].task_id)]] :
     s \in {o \in Orders(get_incomplete_attempts) :
               \A i, j \in DOMAIN o :
                  i < j => stamps[o[i]].last_updated >= stamps[o[j]].last_updated}}

\* the first start of the process, or its end anywhere (memory is lost,
\* the rows and the clock stay) followed by the next start:
\* DatabaseManager().init_database(); TaskService(db_manager)
ListingRestart ==
    /\ init_database
    /\ stamps' = migrated(stamps, attempts, now)
    /\ current_attempt_id' = None
    /\ exam_id' = None
    /\ pc' = "idle"
    /\ printed' = "none"
    /\ ClearLocals
    /\ UNCHANGED <<used, timer_state>>

\* start_attempt; the attempts are made for the tasks from the end of the
\* catalog backwards, one each, so that the rows differ in task and points
ListingStart(t) ==
    /\ pc = "idle"
    /\ start_attempt(t)
    /\ stamps' = inserted(stamps, now)
    /\ printed' = "none"
    /\ UNCHANGED <<exam_id, pc, locals, used, timer_state>>

\* resume_attempt for an attempt of the recovery list
ListingResume(a) ==
    /\ pc = "idle"
    /\ a \in get_incomplete_attempts
    /\ resume_attempt(a)
    /\ printed' = "none"
    /\ UNCHANGED <<exam_id, pc, locals, used, timer_state, stamps>>

\* _auto_save_callback with the seconds passed so far: the UPDATE changes
\* the row only WHERE status = 'in_progress'
ListingAutoSave ==
    /\ pc = "idle"
    /\ _auto_save_callback(int(now))
    /\ stamps' = IF current_attempt_id # None
                    /\ attempts[current_attempt_id].status = "in_progress"
                 THEN updated(stamps, current_attempt_id, now)
                 ELSE stamps
    /\ printed' = "none"
    /\ UNCHANGED <<exam_id, pc, locals, used, timer_state>>

\* complete_attempt for the task of the current attempt, with the seconds
\* passed so far, up to its first commit; without a current attempt it
\* prints "Kein aktiver Loesungsversuch!" and returns
ListingComplete ==
    /\ pc = "idle"
    /\ IF current_attempt_id = None
       THEN /\ printed' = "no_active_attempt"
            /\ UNCHANGED <<store, exam_id, pc, locals, used, timer_state, stamps>>
       ELSE /\ times_done[get_task_by_attempt(current_attempt_id)] < MaxDone
            /\ complete_attempt_status(int(now))
            /\ stamps' = updated(stamps, current_attempt_id, now)
            /\ task' = get_task_by_attempt(current_attempt_id)
            /\ pc' = "completing"
            /\ printed' = "none"
            /\ UNCHANGED <<exam_id, attempt_data, point_range, task_counts, used,
                           timer_state>>

\* complete_attempt from mark_task_done on: prints "Aufgabe abgeschlossen!"
ListingCompleteSecondWrite ==
    /\ pc = "completing"
    /\ complete_attempt_done(task)
    /\ task' = None
    /\ pc' = "idle"
    /\ printed' = "completed"
    /\ UNCHANGED <<exam_id, attempt_data, point_range, task_counts, used,
                   timer_state, stamps>>

\* cancel_attempt: prints "Loesungsversuch abgebrochen" after the write,
\* and nothing when it returns without a current attempt
ListingCancel ==
    /\ pc = "idle"
    /\ cancel_attempt
    /\ printed' = IF current_attempt_id # None THEN "cancelled" ELSE "none"
    /\ stamps' = IF current_attempt_id # None
                 THEN updated(stamps, current_attempt_id, now)
                 ELSE stamps
    /\ UNCHANGED <<exam_id, pc, locals, used, timer_state>>

\* the recovery menu's direct write for a listed attempt
ListingDiscard(a) ==
    /\ pc = "idle"
    /\ a \in get_incomplete_attempts
    /\ attempts' = update_attempt_status(attempts, a, "cancelled", NULL)
    /\ stamps' = updated(stamps, a, now)
    /\ printed' = "none"
    /\ UNCHANGED <<times_done, current_attempt_id, incs, exam_id, pc, locals,
                   used, timer_state>>

\* half a second passes
ListingAdvance ==
    /\ now < MaxClock
    /\ now' = now + 1
    /\ UNCHANGED <<store, exam_id, pc, locals, used, timers, current_timer,
                   join_until, duration, saved, stamps, printed>>

NextListing ==
    \/ ListingRestart
    \/ \E t \in {NumTasks - Len(attempts)} \cap Tasks : ListingStart(t)
    \/ \E a \in DOMAIN attempts : ListingResume(a)
    \/ ListingAutoSave
    \/ ListingComplete
    \/ ListingCompleteSecondWrite
    \/ ListingCancel
    \/ \E a \in DOMAIN attempts : ListingDiscard(a)
    \/ ListingAdvance

SpecListing == Init /\ [][NextListing]_vars

----------------------------------------------------------------------------
(* Vocabulary of the properties *)

CompletedAttempts(t) ==
    {a \in DOMAIN attempts : attempts[a].task_id = t /\ attempts[a].status = "completed"}

InScope(t, lo, hi, e) ==
    /\ lo <= total_points(t)
    /\ total_points(t) <= hi
    /\ (e # None => worksheet_exam(t) = e)

Scope(lo, hi, e) == {t \in Tasks : InScope(t, lo, hi, e)}

AtMinimum(lo, hi, e) ==
    {t \in Scope(lo, hi, e) : \A u \in Scope(lo, hi, e) : times_done[t] <= times_done[u]}

----------------------------------------------------------------------------
(* C1: whenever no complete_attempt call is in flight (the process is at   *)
(* rest or has stopped, also between the two writes), each task's          *)
(* times_done equals the number of its completed attempts.                 *)
C1_TimesDoneEqualsCompleted ==
    pc # "completing" =>
        \A t \in Tasks : times_done[t] = Cardinality(CompletedAttempts(t))

(* C2: each attempt causes at most one increment of times_done.            *)
C2_AtMostOneIncrementPerAttempt ==
    \A a \in DOMAIN incs : incs[a] <= 1

(* C3: a completed or cancelled attempt never changes status again.        *)
C3_TerminalStatusIsFinal ==
    [][\A a \in DOMAIN attempts :
          attempts[a].status # "in_progress" =>
              attempts'[a].status = attempts[a].status]_vars

(* C4: a step that moves an attempt to cancelled (cancel_attempt or a      *)
(* discard in the recovery menus) leaves every times_done unchanged.       *)
C4_CancelKeepsTimesDone ==
    [][(\E a \in DOMAIN attempts :
           /\ attempts[a].status # "cancelled"
           /\ attempts'[a].status = "cancelled")
       => times_done' = times_done]_vars

C4_Witness ==
    \E a \in DOMAIN attempts :
        /\ attempts[a].status = "cancelled"
        /\ times_done[attempts[a].task_id] > 0
        /\ pc = "menu"

----------------------------------------------------------------------------
(* A selection is asked for at the main menu, for any range of            *)
(* PointInputs; each answer is a state with pc "offered" (a task, with    *)
(* its counts) or "no_task" (None), the store and the exam unchanged.     *)

(* C5: a task returned by get_random_task lies in the requested range and  *)
(* the current exam, and no task of that scope has a smaller times_done.   *)
C5_SelectedIsAtMinimum ==
    pc = "offered" =>
        /\ InScope(task, point_range[1], point_range[2], exam_id)
        /\ \A u \in Scope(point_range[1], point_range[2], exam_id) :
               times_done[task] <= times_done[u]

C5_Witness ==
    /\ pc = "offered"
    /\ \E u \in Scope(point_range[1], point_range[2], exam_id) :
           times_done[u] > times_done[task]

(* C6: while every selection so far used one and the same scope, the       *)
(* times_done of two tasks of that scope never differ by more than 1.      *)
C6_SpreadAtMostOne ==
    \A lo \in PointInputs, hi \in PointInputs, e \in Exams :
        used = <<lo, hi, e>> =>
            \A t \in Scope(lo, hi, e), u \in Scope(lo, hi, e) :
                times_done[t] - times_done[u] <= 1

(* C7: get_random_task returns None exactly when no task is in scope       *)
(* (inverted range, no task with such points, exam excludes all), and a    *)
(* task otherwise.                                                         *)
C7_NoneIffEmptyScope ==
    /\ pc = "no_task" =>
          task = None /\ Scope(point_range[1], point_range[2], exam_id) = {}
    /\ pc = "offered" =>
          task \in Tasks /\ Scope(point_range[1], point_range[2], exam_id) # {}

C7_Witness ==
    /\ pc = "no_task"
    /\ point_range[1] > point_range[2]
    /\ task = None

(* C8: with a task in scope, current_round is 1 + the minimum times_done   *)
(* of the scope.                                                           *)
C8_RoundIsOnePlusMinimum ==
    pc = "offered" =>
        /\ \E t \in Scope(point_range[1], point_range[2], exam_id) :
               task_counts.current_round = 1 + times_done[t]
        /\ \A t \in Scope(point_range[1], point_range[2], exam_id) :
               task_counts.current_round <= 1 + times_done[t]

C8_Witness ==
    /\ pc = "offered"
    /\ task_counts.current_round = 2
    /\ \A t \in Scope(point_range[1], point_range[2], exam_id) : times_done[t] = 1

(* C9: tasks_at_current_level is the number of tasks the selection draws   *)
(* from, and current_round - 1 is the times_done of the task returned.     *)
C9_CountsAgreeWithSelector ==
    pc = "offered" =>
        /\ task_counts.tasks_at_current_level
               = Cardinality(get_random_task(point_range[1], point_range[2]))
        /\ times_done[task] = task_counts.current_round - 1

C9_Witness ==
    /\ pc = "offered"
    /\ task_counts.current_round = 1
    /\ task_counts.tasks_at_current_level = 1
    /\ task_counts.total = 2

(* C10: get_random_task can return exactly the in-scope tasks at the       *)
(* minimum times_done: every one of them, and no other.  With tasks 1 and  *)
(* 2 (5 points) at 0 and 1 only task 1 can be returned for [5,5]; once     *)
(* both are at 1, both can.                                                *)
C10_CandidatesAreExactlyMinimum ==
    /\ pc = "offered" => task \in AtMinimum(point_range[1], point_range[2], exam_id)
    /\ pc = "menu" =>
          /\ \A lo \in PointInputs, hi \in PointInputs :
                get_random_task(lo, hi) \ {None} = AtMinimum(lo, hi, exam_id)
          /\ \A t \in Tasks :
                (ENABLED (SelectTask(5, 5) /\ task' = t))
                    <=> t \in AtMinimum(5, 5, exam_id)
          /\ (exam_id = 1 /\ times_done[1] = 0 /\ times_done[2] = 1)
                => get_random_task(5, 5) = {1}
          /\ (exam_id = 1 /\ times_done[1] = 1 /\ times_done[2] = 1)
                => get_random_task(5, 5) = {1, 2}

C10_Witness ==
    /\ pc = "offered"
    /\ point_range = <<5, 5>>
    /\ times_done[1] = 1
    /\ times_done[2] = 1
    /\ task = 1

----------------------------------------------------------------------------
(* Checkpoints, stop and recovery (SpecSession) *)

\* the value last written by a checkpoint for an attempt, NULL if none
LastSaved(a) == IF a \in DOMAIN saved THEN saved[a] ELSE NULL

(* C11: a checkpoint that the thread of a timer delivers for an attempt    *)
(* that is no longer in_progress (completed or cancelled by the foreground *)
(* in the meantime) leaves the row of that attempt, status and             *)
(* total_time_seconds, as it was.                                           *)
C11_LateCheckpointChangesNothing ==
    [][\A i \in DOMAIN timers :
          WriteDone(i) =>
             \A a \in DOMAIN attempts :
                attempts[a].status # "in_progress" => attempts'[a] = attempts[a]]_vars

\* the thread is inside the callback, with the UPDATE for an attempt that
\* the foreground has completed or cancelled since the thread read its id
C11_Witness ==
    \E i \in DOMAIN timers :
       /\ timers[i].thread = "write"
       /\ attempts[timers[i].attempt_id].status \in {"completed", "cancelled"}
       /\ attempts[timers[i].attempt_id].total_time_seconds # int(timers[i].elapsed)

(* C12: the values written to total_time_seconds by the checkpoints of one *)
(* attempt never decrease.                                                 *)
C12_CheckpointsNeverDecrease ==
    [][\A a \in DOMAIN saved :
          saved[a] # NULL => saved'[a] >= saved[a]]_vars

(* C13: complete_attempt persists the value returned by stop(), and that   *)
(* value is not smaller than the checkpoint written before for the         *)
(* attempt.                                                                 *)
C13_CompletedTimeCoversCheckpoints ==
    [][(pc = "finish" /\ pc' = "completing") =>
          /\ attempts'[current_attempt_id].total_time_seconds = duration
          /\ LastSaved(current_attempt_id) # NULL =>
                duration >= LastSaved(current_attempt_id)]_vars

(* C14: a timer started with offset N for a resumed attempt returns from   *)
(* stop() a value of at least N.                                           *)
C14_ResumedTimeIsAdditive ==
    [][(pc = "stopping" /\ pc' = "finish") =>
          duration' >= timers[current_timer].initial_time]_vars

(* C15: after a restart every attempt that was in_progress when the        *)
(* process stopped is listed by get_incomplete_attempts, with elapsed_time *)
(* equal to its last checkpoint (0 if it has none), and it has not         *)
(* incremented times_done.                                                 *)
C15_RecoveryListsLastCheckpoint ==
    pc = "recovery" =>
       \A a \in DOMAIN attempts :
          attempts[a].status = "in_progress" =>
             /\ a \in get_incomplete_attempts
             /\ elapsed_time(a) = IF LastSaved(a) = NULL THEN 0 ELSE LastSaved(a)
             /\ incs[a] = 0

\* the recovery menu after a stop that followed a checkpoint of one second
C15_Witness ==
    /\ pc = "recovery"
    /\ \E a \in get_incomplete_attempts : LastSaved(a) >= 1 /\ elapsed_time(a) >= 1

----------------------------------------------------------------------------
(* The timer alone (SpecTimer) *)

(* C16: between two calls, get_elapsed_time of a running or paused timer   *)
(* is the initial time plus the time spent running, paused intervals       *)
(* excluded, and so is never negative, constant while paused and continued *)
(* from the frozen value after resume; before start it is the initial      *)
(* time.                                                                    *)
C16_ElapsedIsInitialPlusRunning ==
    (pc = "timing" /\ current_timer # None) =>
       LET tm == timers[current_timer] IN
       /\ tm.thread = "none" => get_elapsed_time(tm, now) = Seconds(tm.initial_time)
       /\ tm.is_running =>
             /\ get_elapsed_time(tm, now) = Seconds(tm.initial_time) + tm.run
             /\ get_elapsed_time(tm, now) >= 0

\* a timer started with an offset, paused for a while and running again
C16_Witness ==
    /\ pc = "timing"
    /\ current_timer # None
    /\ timers[current_timer].is_running
    /\ ~timers[current_timer].is_paused
    /\ timers[current_timer].initial_time > 0
    /\ timers[current_timer].total_paused_time > 0
    /\ timers[current_timer].run > 0
    /\ now > timers[current_timer].pause_time

(* C17: stop() called on a running or on a paused timer returns the        *)
(* integer part of the initial time plus the time spent running; for a     *)
(* paused timer that is the value frozen at pause().                       *)
C17_StopReturnsElapsed ==
    [][(pc = "stopping" /\ pc' = "timing") =>
          duration' = int(Seconds(timers'[current_timer].initial_time)
                          + timers'[current_timer].run)]_vars

(* C18: pause() on a timer that is not running or is already paused, and  *)
(* resume() on a timer that is not running or is not paused, change no     *)
(* field of the timer.                                                     *)
C18_InvalidCallsChangeNothing ==
    [][/\ (TimerPause /\ ~(timers[current_timer].is_running
                             /\ ~timers[current_timer].is_paused))
             => UNCHANGED timers
       /\ (TimerResume /\ ~(timers[current_timer].is_running
                              /\ timers[current_timer].is_paused))
             => UNCHANGED timers]_vars

\* a paused timer some time after its pause: another pause() would move
\* the freeze point, and on the stopped timer a resume() would add to
\* total_paused_time
C18_Witness ==
    /\ pc = "timing"
    /\ current_timer # None
    /\ timers[current_timer].is_paused
    /\ now > timers[current_timer].pause_time
    /\ ENABLED TimerPause

(* C19: a checkpoint is made once per auto_save_interval seconds of        *)
(* running time: when the callback is called, the timer has been running,  *)
(* not paused, for at least auto_save_interval seconds since the last      *)
(* checkpoint (since the start for the first).                             *)
C19_CheckpointPerRunningInterval ==
    \A i \in DOMAIN timers :
       (timers[i].thread = "call" /\ ~timers[i].failed) =>
          timers[i].run_call - timers[i].run_saved >= Seconds(AutoSaveInterval)

(* C20: a callback that raises neither ends the thread nor advances        *)
(* last_auto_save: the thread ends only when the loop condition fails, and *)
(* after a failure the checkpoint stays due, so that the next iteration of *)
(* a timer that is not paused calls the callback again.                    *)
C20_FailedCheckpointIsRetried ==
    \A i \in DOMAIN timers :
       /\ timers[i].thread = "exited" => ~loop_continues(timers[i])
       /\ timers[i].failed =>
             /\ timers[i].thread # "none"
             /\ now - timers[i].last_auto_save >= Seconds(AutoSaveInterval)
             /\ (timers[i].thread = "check" /\ ~timers[i].is_paused)
                   => auto_save_due(timers[i], now)

\* the callback is being called again after a call that raised
C20_Witness ==
    \E i \in DOMAIN timers :
       /\ timers[i].failed
       /\ timers[i].thread = "call"
       /\ timers[i].is_running

----------------------------------------------------------------------------
(* Cancelling and stopping (SpecSession, SpecTimer) *)

(* C21: whenever an attempt's status is written as cancelled, stop() has   *)
(* returned on the timer of the session (no timer is current, no join is   *)
(* pending and no timer's loop condition holds), and no later step, a late *)
(* checkpoint of the background thread included, changes the row of a      *)
(* cancelled attempt.                                                      *)
C21_CancelAfterStopAndFinal ==
    [][\A a \in DOMAIN attempts :
          /\ (attempts[a].status # "cancelled" /\ attempts'[a].status = "cancelled")
                => /\ current_timer = None
                   /\ join_until = 0
                   /\ \A i \in DOMAIN timers : ~loop_continues(timers[i])
          /\ attempts[a].status = "cancelled" => attempts'[a] = attempts[a]]_vars

\* after 'q' the attempt is cancelled while the thread of the stopped timer
\* still holds a checkpoint for it
C21_Witness ==
    \E i \in DOMAIN timers :
       /\ pc = "menu"
       /\ timers[i].thread = "write"
       /\ timers[i].stop_timer
       /\ attempts[timers[i].attempt_id].status = "cancelled"
       /\ attempts[timers[i].attempt_id].total_time_seconds # int(timers[i].elapsed)

(* C22: once stop() has set its flags, is_running is false, the thread     *)
(* leaves the loop at its next loop test (it never starts another          *)
(* iteration), and stop() returns as soon as the thread has ended or the   *)
(* one second of the join has passed, whatever the thread is doing.        *)
C22_StopEndsLoopAndReturns ==
    /\ [](pc = "stopping" =>
             /\ ~timers[current_timer].is_running
             /\ timers[current_timer].stop_timer
             /\ join_until <= now + Seconds(1)
             /\ (now >= join_until \/ timers[current_timer].thread = "exited")
                   => ENABLED TimerStopReturn)
    /\ [][\A i \in DOMAIN timers :
             (Tick(i) /\ timers[i].stop_timer) => timers'[i].thread = "exited"]_vars

\* stop() has returned on a timer that had been running for a second, and
\* the thread has left the loop
C22_Witness ==
    /\ pc = "timing"
    /\ duration # NULL
    /\ current_timer # None
    /\ timers[current_timer].thread = "exited"
    /\ timers[current_timer].stop_timer
    /\ ~timers[current_timer].is_running
    /\ timers[current_timer].run >= Seconds(1)

----------------------------------------------------------------------------
(* Failing writes (SpecFailing) *)

(* C23: when a write of complete_attempt has raised, the attempt is still  *)
(* the current attempt, still in_progress in the store and so listed by    *)
(* get_incomplete_attempts, and times_done of its task equals the number   *)
(* of its completed attempts.                                              *)
C23_FailedCompletionLeavesInProgress ==
    pc = "raised" =>
       /\ current_attempt_id # None
       /\ attempts[current_attempt_id].status = "in_progress"
       /\ current_attempt_id \in get_incomplete_attempts
       /\ times_done[task] = Cardinality(CompletedAttempts(task))

----------------------------------------------------------------------------
(* Recovery at startup (SpecUI) *)

(* C24: a startup shows the recovery menu exactly when an attempt is       *)
(* in_progress, and every in_progress attempt can be chosen there; the     *)
(* discards ('a', and 'd' for the chosen attempt) set the attempts to      *)
(* cancelled and leave every times_done; every other step, restarts        *)
(* included, leaves the row of an in_progress attempt that is not the      *)
(* current attempt as it is, so that it is offered again.                  *)
C24_RecoveryOffersUntilSettled ==
    /\ [](pc = "recovery" =>
             /\ get_incomplete_attempts # {}
             /\ \A a \in DOMAIN attempts :
                   attempts[a].status = "in_progress" => ENABLED RecoveryChoose(a))
    /\ [][/\ (pc = "down" /\ pc' # "down") =>
                (pc' = "recovery" <=>
                    \E a \in DOMAIN attempts : attempts[a].status = "in_progress")
          /\ RecoveryDiscardAll =>
                /\ times_done' = times_done
                /\ \A a \in get_incomplete_attempts : attempts'[a].status = "cancelled"
          /\ ResumeDiscard =>
                /\ times_done' = times_done
                /\ attempts'[attempt_data].status = "cancelled"
          /\ \A a \in DOMAIN attempts :
                (/\ attempts[a].status = "in_progress"
                 /\ a # current_attempt_id
                 /\ ~RecoveryDiscardAll
                 /\ ~(ResumeDiscard /\ a = attempt_data))
                   => attempts'[a] = attempts[a]]_vars

\* the recovery menu lists two attempts: the older one was not chosen at an
\* earlier startup and is offered again
C24_Witness ==
    /\ pc = "recovery"
    /\ Cardinality(get_incomplete_attempts) = 2
    /\ \A a \in get_incomplete_attempts : ENABLED RecoveryChoose(a)

----------------------------------------------------------------------------
(* The recovery list (SpecListing) *)

(* C25: every list that get_incomplete_attempts can return holds exactly   *)
(* the in_progress attempts, each once and no completed or cancelled one,  *)
(* the row written in a later second before the row written in an earlier  *)
(* one (last_updated being the second of the last write to the row), each  *)
(* with the points of its task.                                            *)
C25_ListIsInProgressMostRecentFirst ==
    /\ get_incomplete_attempts_ordered # {}
    /\ \A list \in get_incomplete_attempts_ordered :
          /\ Len(list) = Cardinality({a \in DOMAIN attempts :
                                         attempts[a].status = "in_progress"})
          /\ \A a \in DOMAIN attempts :
                attempts[a].status = "in_progress"
                   <=> \E i \in DOMAIN list : list[i].attempt_id = a
          /\ \A i, j \in DOMAIN list :
                /\ i < j => stamps[list[i].attempt_id].written
                               >= stamps[list[j].attempt_id].written
                /\ (i # j) => list[i].attempt_id # list[j].attempt_id
          /\ \A i \in DOMAIN list :
                /\ list[i].last_updated = stamps[list[i].attempt_id].written
                /\ list[i].task_id = attempts[list[i].attempt_id].task_id
                /\ list[i].total_points = IF list[i].task_id <= 2 THEN 5 ELSE 7

\* two attempts are listed, the older one first because its checkpoint is
\* the most recent write
C25_Witness ==
    /\ pc = "idle"
    /\ \E list \in get_incomplete_attempts_ordered :
          /\ Len(list) = 2
          /\ list[1].attempt_id = 1
          /\ list[1].last_updated > list[2].last_updated
          /\ list[1].total_points # list[2].total_points
    /\ Cardinality(get_incomplete_attempts_ordered) = 1

----------------------------------------------------------------------------
(* The calls of the service in any order (SpecListing) *)

(* C26: no times_done is negative or ever decreases, and a times_done      *)
(* changes only in the step that commits mark_task_done inside             *)
(* complete_attempt, by one, for the task passed to it: every other call   *)
(* (start_attempt, resume_attempt, auto-save, cancel_attempt, the recovery *)
(* discard, a restart) leaves every times_done unchanged.                  *)
C26_TimesDoneChangesOnlyOnCompletion ==
    [][\A t \in Tasks :
          /\ times_done[t] >= 0
          /\ times_done'[t] >= times_done[t]
          /\ times_done'[t] # times_done[t] =>
                /\ pc = "completing"
                /\ task = t
                /\ times_done'[t] = times_done[t] + 1]_vars

\* after a completion, which counted once, a later attempt has been
\* started and checkpointed with every times_done as it was
C26_Witness ==
    /\ pc = "idle"
    /\ \E a, b \in DOMAIN attempts :
          /\ attempts[a].status = "completed"
          /\ times_done[attempts[a].task_id] = 1
          /\ b > a
          /\ attempts[b].status = "in_progress"
          /\ attempts[b].total_time_seconds # NULL
          /\ times_done[attempts[b].task_id] = 0
          /\ current_attempt_id = b

(* C27: start_attempt(task_id) adds exactly one row, which references      *)
(* task_id, is in_progress and is reported with elapsed time 0 (it has no  *)
(* checkpoint), makes it the current attempt and changes no other row.     *)
C27_StartCreatesOneInProgressRow ==
    [][\A t \in Tasks :
          ListingStart(t) =>
             LET new == Len(attempts) + 1 IN
             /\ DOMAIN attempts' = DOMAIN attempts \cup {new}
             /\ attempts'[new].task_id = t
             /\ attempts'[new].status = "in_progress"
             /\ attempts'[new].total_time_seconds = NULL
             /\ elapsed_time(Len(attempts))' = 0
             /\ new \in get_incomplete_attempts'
             /\ current_attempt_id' = new
             /\ \A a \in DOMAIN attempts : attempts'[a] = attempts[a]
             /\ times_done' = times_done]_vars

\* a second attempt has just been started, for another task than the
\* first, which is still in_progress with its checkpoint
C27_Witness ==
    /\ pc = "idle"
    /\ printed = "none"
    /\ Len(attempts) = 2
    /\ stamps[2].written = int(now)
    /\ current_attempt_id = 2
    /\ attempts[2].status = "in_progress"
    /\ attempts[2].total_time_seconds = NULL
    /\ attempts[1].status = "in_progress"
    /\ attempts[1].total_time_seconds # NULL
    /\ attempts[1].task_id # attempts[2].task_id

(* C28: complete_attempt and cancel_attempt called when no attempt is      *)
(* current change no attempt row and no times_done, and the call prints    *)
(* the message of an invalid call, not nothing and not the message of a    *)
(* success.                                                                *)
C28_InvalidCallChangesNothingAndIsSignalled ==
    [][/\ (ListingComplete /\ current_attempt_id = None) =>
             /\ UNCHANGED <<attempts, times_done, stamps>>
             /\ printed' = "no_active_attempt"
       /\ (ListingCancel /\ current_attempt_id = None) =>
             /\ UNCHANGED <<attempts, times_done, stamps>>
             /\ printed' = "no_active_attempt"]_vars

(* C29: the current attempt is one id or none; complete_attempt,           *)
(* cancel_attempt and the auto-save callback change no row but the one of  *)
(* the current attempt; start_attempt while another attempt is current     *)
(* leaves that attempt's row as it was, so that an in_progress one is      *)
(* still listed for recovery.                                              *)
C29_OnlyCurrentRowIsWritten ==
    /\ [](current_attempt_id \in {None} \cup DOMAIN attempts)
    /\ [][/\ (ListingComplete \/ ListingCompleteSecondWrite
                \/ ListingCancel \/ ListingAutoSave) =>
                \A a \in DOMAIN attempts :
                   a # current_attempt_id =>
                      attempts'[a] = attempts[a] /\ stamps'[a] = stamps[a]
          /\ \A t \in Tasks :
                (ListingStart(t) /\ current_attempt_id # None) =>
                   /\ attempts'[current_attempt_id] = attempts[current_attempt_id]
                   /\ stamps'[current_attempt_id] = stamps[current_attempt_id]
                   /\ current_attempt_id \in get_incomplete_attempts
                         => current_attempt_id \in get_incomplete_attempts']_vars

\* a second attempt has been started in the second of the first one's
\* checkpoint and completed; the first is still in_progress with its
\* checkpoint
C29_Witness ==
    /\ pc = "idle"
    /\ printed = "completed"
    /\ Len(attempts) = 2
    /\ attempts[2].status = "completed"
    /\ attempts[1].status = "in_progress"
    /\ attempts[1].total_time_seconds # NULL
    /\ stamps[1].written = stamps[2].created_at
    /\ stamps[2].written = stamps[2].created_at

----------------------------------------------------------------------------
(* The stopped timer (SpecTimer) *)

(* C30: once stop() has returned, the reading of the timer is final:       *)
(* get_elapsed_time() has the same value after every later step, and       *)
(* another stop() returns the integer that the first one returned.         *)
C30_StoppedReadingIsFinal ==
    [][(/\ pc = "timing"
        /\ pc' = "timing"
        /\ current_timer # None
        /\ timers[current_timer].stop_timer
        /\ duration # NULL)
          => /\ get_elapsed_time(timers'[current_timer], now')
                   = get_elapsed_time(timers[current_timer], now)
             /\ duration' = duration]_vars

----------------------------------------------------------------------------
(* One attempt after another (SpecHandover) *)

(* C31: every checkpoint that changes a row is written by the thread of a  *)
(* timer to the attempt that was current when that timer was started,      *)
(* never to the row of a later attempt.                                    *)
C31_CheckpointGoesToOwnAttempt ==
    [][\A i \in DOMAIN timers :
          (WriteDone(i) /\ attempts' # attempts)
             => timers[i].attempt_id = timers[i].owner]_vars

----------------------------------------------------------------------------
(* The callback and pause (SpecTimer) *)

(* C32: when the thread calls the checkpoint callback the timer is not     *)
(* paused, and the value passed (whole seconds) is not more than the       *)
(* elapsed time at that moment.                                            *)
C32_CallbackOnlyWhileRunning ==
    [][\A i \in DOMAIN timers :
          Callback(i) =>
             /\ ~timers[i].is_paused
             /\ Seconds(int(timers[i].elapsed)) <= get_elapsed_time(timers[i], now)]_vars

----------------------------------------------------------------------------
(* The console flows (SpecExams) *)

(* C33: in every flow of the console (solve, recovery resume, recovery     *)
(* 'new session') the task id passed to complete_attempt is the task of    *)
(* the current attempt, so that the times_done incremented is the one of   *)
(* the task referenced by the attempt marked completed.                    *)
C33_CompletionCountsTheAttemptsTask ==
    /\ [](pc = "completing" =>
             /\ current_attempt_id # None
             /\ attempts[current_attempt_id].status = "completed"
             /\ attempts[current_attempt_id].task_id = task)
    /\ [][\A t \in Tasks :
             times_done'[t] # times_done[t] =>
                /\ current_attempt_id # None
                /\ attempts'[current_attempt_id].status = "completed"
                /\ attempts'[current_attempt_id].task_id = t]_vars

\* the first attempt, resumed from the recovery menu after a second attempt
\* was started, is marked completed and its task is about to be counted
C33_Witness ==
    /\ pc = "completing"
    /\ Len(attempts) = 2
    /\ current_attempt_id = 1
    /\ attempts[1].status = "completed"
    /\ attempts[1].task_id = task
    /\ attempts[2].status = "in_progress"
    /\ times_done[task] = 0

----------------------------------------------------------------------------
(* Rounds of one scope (SpecRounds) *)

(* C34: when every selection is made with get_random_task on one non-empty *)
(* scope and is completed, current_round never decreases; a completion     *)
(* made while tasks_at_current_level is 1 raises the round by exactly 1,   *)
(* every other completion keeps the round and lowers                       *)
(* tasks_at_current_level by 1; nothing else changes them; and a round     *)
(* for which enough attempts are left is followed by the next round.       *)
C34_RoundAdvancesAfterLevelCount ==
    /\ [][(used # NoScope /\ used' = used) =>
             IF times_done' # times_done
             THEN IF get_task_counts_by_point_range(used[1], used[2]).tasks_at_current_level = 1
                  THEN get_task_counts_by_point_range(used[1], used[2])'.current_round
                         = get_task_counts_by_point_range(used[1], used[2]).current_round + 1
                  ELSE /\ get_task_counts_by_point_range(used[1], used[2])'.current_round
                            = get_task_counts_by_point_range(used[1], used[2]).current_round
                       /\ get_task_counts_by_point_range(used[1], used[2])'.tasks_at_current_level
                            = get_task_counts_by_point_range(used[1], used[2]).tasks_at_current_level - 1
             ELSE get_task_counts_by_point_range(used[1], used[2])'
                    = get_task_counts_by_point_range(used[1], used[2])]_vars
    /\ \A r \in 1..MaxAttempts :
          (/\ used # NoScope
           /\ get_task_counts_by_point_range(used[1], used[2]).current_round = r
           /\ get_task_counts_by_point_range(used[1], used[2]).tasks_at_current_level
                 <= MaxAttempts - Cardinality({a \in DOMAIN attempts :
                                                  incs[a] > 0}))
          ~> (/\ used # NoScope
              /\ get_task_counts_by_point_range(used[1], used[2]).current_round = r + 1)

\* both tasks of a scope of two have been completed once, each one while
\* at the minimum, and the scope is in round 2
C34_Witness ==
    /\ pc = "menu"
    /\ used # NoScope
    /\ Cardinality(ScopeRows(used[1], used[2])) = 2
    /\ \A t \in ScopeRows(used[1], used[2]) : times_done[t] = 1
    /\ incs = <<1, 1>>
    /\ get_task_counts_by_point_range(used[1], used[2]).current_round = 2

----------------------------------------------------------------------------
(* The progress aggregate and the exams (SpecExams) *)

(* C35: in every state and for every range, the aggregate returned by      *)
(* get_task_counts_by_point_range has total = completed + remaining; with  *)
(* total > 0, 1 <= tasks_at_current_level <= total; current_round > 1      *)
(* implies remaining = 0; current_round = 1 implies remaining =            *)
(* tasks_at_current_level; and over an empty scope it is total 0,          *)
(* completed 0, remaining 0, current_round 1, tasks_at_current_level 0.    *)
C35_AggregateIsConsistent ==
    \A lo \in PointInputs, hi \in PointInputs :
        \A c \in {get_task_counts_by_point_range(lo, hi)} :
            /\ c.total = c.completed + c.remaining
            /\ c.total > 0 => /\ 1 <= c.tasks_at_current_level
                              /\ c.tasks_at_current_level <= c.total
            /\ c.current_round > 1 => c.remaining = 0
            /\ c.current_round = 1 => c.remaining = c.tasks_at_current_level
            /\ ScopeRows(lo, hi) = {} =>
                  c = [total |-> 0, completed |-> 0, remaining |-> 0,
                       current_round |-> 1, tasks_at_current_level |-> 0]

\* a task is offered from a range of two tasks that is in round 2, both
\* completed and none remaining, while another range is empty
C35_Witness ==
    /\ pc = "offered"
    /\ exam_id # None
    /\ task_counts = get_task_counts_by_point_range(point_range[1], point_range[2])
    /\ task_counts.current_round = 2
    /\ task_counts.total = 2
    /\ task_counts.completed = 2
    /\ task_counts.remaining = 0
    /\ task_counts.tasks_at_current_level = 2
    /\ ScopeRows(6, 6) = {}
    /\ get_task_counts_by_point_range(6, 6).current_round = 1


(* C36: with an exam selected, get_random_task and                         *)
(* get_task_counts_by_point_range consider the tasks of that exam only;    *)
(* after set_exam_id both use the new exam; and the completion of a task   *)
(* of another exam than the selected one changes neither the aggregate     *)
(* (round and counts) nor the candidates of any range.                     *)
C36_ExamScoping ==
    /\ [](exam_id # None =>
             \A lo \in PointInputs, hi \in PointInputs :
                /\ get_random_task(lo, hi) \subseteq Scope(lo, hi, exam_id) \cup {None}
                /\ \A c \in {get_task_counts_by_point_range(lo, hi)} :
                      /\ c.total = Cardinality(Scope(lo, hi, exam_id))
                      /\ c.completed = Cardinality({t \in Scope(lo, hi, exam_id) :
                                                       times_done[t] > 0})
                      /\ c.tasks_at_current_level <= Cardinality(Scope(lo, hi, exam_id)))
    /\ [][\A e \in Exams :
             SwitchExam(e) =>
                \A lo \in PointInputs, hi \in PointInputs :
                   /\ get_random_task(lo, hi)' \subseteq Scope(lo, hi, e) \cup {None}
                   /\ get_task_counts_by_point_range(lo, hi)'.total
                         = Cardinality(Scope(lo, hi, e))]_vars
    /\ [][\A t \in Tasks :
             (times_done'[t] # times_done[t] /\ worksheet_exam(t) # exam_id) =>
                /\ exam_id' = exam_id
                /\ \A lo \in PointInputs, hi \in PointInputs :
                      /\ get_task_counts_by_point_range(lo, hi)'
                            = get_task_counts_by_point_range(lo, hi)
                      /\ get_random_task(lo, hi)' = get_random_task(lo, hi)]_vars

\* an attempt for a task of another exam than the selected one, resumed
\* from the recovery menu, is marked completed and about to be counted,
\* while the selected exam has a task in round 1
C36_Witness ==
    /\ pc = "completing"
    /\ exam_id # None
    /\ task # None
    /\ worksheet_exam(task) # exam_id
    /\ \E lo \in PointInputs, hi \in PointInputs :
          /\ get_random_task(lo, hi) # {None}
          /\ get_task_counts_by_point_range(lo, hi).current_round = 1

----------------------------------------------------------------------------
(* Restart (SpecSession) *)

(* C37: a start of the process (init_database with its migration, before   *)
(* the recovery menu) leaves the status, the stored time and the task of   *)
(* every attempt as they were, whether in_progress, completed with a       *)
(* stored time or cancelled, adds and removes no attempt, and leaves every *)
(* times_done.                                                             *)
C37_RestartKeepsAttempts ==
    /\ [](\A a \in DOMAIN attempts :
             attempts[a].status = "completed" => attempts[a].total_time_seconds # NULL)
    /\ [][(pc = "down" /\ pc' # "down") =>
             /\ DOMAIN attempts' = DOMAIN attempts
             /\ \A a \in DOMAIN attempts :
                   /\ attempts'[a].status = attempts[a].status
                   /\ attempts'[a].total_time_seconds = attempts[a].total_time_seconds
                   /\ attempts'[a].task_id = attempts[a].task_id
             /\ times_done' = times_done]_vars

\* the process has been started again over an attempt left in_progress
\* with a checkpoint of one second, which is listed for recovery
C37_Witness ==
    /\ pc = "recovery"
    /\ Len(attempts) = 1
    /\ attempts[1].status = "in_progress"
    /\ attempts[1].total_time_seconds = 1
    /\ times_done[attempts[1].task_id] = 0

====
